---- MODULE Spec2Model ----
(***************************************************************************)
(* A model of ml/rl/training/_dqn_trainer.py: the _DQNTrainer of Horizon.  *)
(* The trainer is constructed from a configuration and five networks, and  *)
(* train(training_batch) is then called repeatedly.  Networks are tabular: *)
(* a network is a table of parameters, one row of output values per state, *)
(* and its forward pass on a state returns that row.  Floating point       *)
(* values are exact rationals <<numerator, denominator>>.                  *)
(***************************************************************************)
EXTENDS Integers, Sequences, FiniteSets, TLC

VARIABLES parameters, phase, self, nets, last

vars == <<parameters, phase, self, nets, last>>

None == "None"

(***************************************************************************)
(* Bounds of the model.                                                    *)
(***************************************************************************)
\* the number of train calls explored after construction
MaxCalls == 2

(***************************************************************************)
(* Exact arithmetic for the tensors' float entries.                        *)
(***************************************************************************)
Abs(n) == IF n < 0 THEN -n ELSE n

RECURSIVE GCD(_, _)
GCD(a, b) == IF b = 0 THEN a ELSE GCD(b, a % b)

Norm(n, d) ==
    LET g == GCD(Abs(n), Abs(d))
        s == IF d < 0 THEN -1 ELSE 1
    IN  IF n = 0 THEN <<0, 1>> ELSE <<(s * n) \div g, (s * d) \div g>>

R(n) == <<n, 1>>
\* sums over the least common denominator and products reduced crosswise keep
\* the intermediate integers small
RAdd(x, y) ==
    IF x[1] = 0 THEN y
    ELSE IF y[1] = 0 THEN x
    ELSE IF x[2] = y[2] THEN Norm(x[1] + y[1], x[2])
    ELSE Norm(x[1] * (y[2] \div GCD(x[2], y[2])) + y[1] * (x[2] \div GCD(x[2], y[2])),
              (x[2] \div GCD(x[2], y[2])) * y[2])
RNeg(x) == <<-x[1], x[2]>>
RSub(x, y) == RAdd(x, RNeg(y))
RMulReduced(a, b) == Norm(a[1] * b[1], a[2] * b[2])
RMul(x, y) ==
    IF x[1] = 0 \/ y[1] = 0 THEN <<0, 1>>
    ELSE IF x = <<1, 1>> THEN y
    ELSE IF y = <<1, 1>> THEN x
    ELSE RMulReduced(Norm(x[1], y[2]), Norm(y[1], x[2]))
RLess(x, y) == x[1] * y[2] < y[1] * x[2]
Zero == R(0)
One == R(1)

\* sum of f[1..n], a function into the rationals
RECURSIVE RSum(_, _)
RSum(f, n) == IF n = 0 THEN Zero ELSE RAdd(RSum(f, n - 1), f[n])

(***************************************************************************)
(* The configuration (DiscreteActionModelParameters and the constructor's  *)
(* other arguments).                                                       *)
(***************************************************************************)
\* parameters.actions: the ordered action set
Actions == <<"a", "b">>

\* parameters.rl.gamma, parameters.rl.target_update_rate (tau),
\* parameters.training.learning_rate
Gamma == <<1, 2>>
Tau == <<1, 4>>
LearningRate == <<1, 4>>

\* parameters.rl.reward_burnin
BurninChoices == {0, 2}

\* parameters.rl.reward_boost as a set of <<action name, boost>> items; the
\* empty set stands for None and for the empty mapping, which the constructor
\* treats alike (no entry is looked up)
RewardBoostChoices == {{}, {<<"b", 2>>}, {<<"z", 1>>}}

\* metrics_to_score as the trainer holds it: one name per metric block
MetricsChoices == {<<"reward">>, <<"reward", "m1">>}

AuxNetworks == {"reward_network", "q_network_cpe", "q_network_cpe_target"}

\* the states a batch row can name
States == {1, 2}

\* the auxiliary network, if any, that the caller built one block wide
NarrowChoices == {None, "reward_network", "q_network_cpe_target"}

\* The configurations explored: every combination of the CPE flag, the mode
\* flag and the burn-in threshold, with every set of supplied auxiliary
\* networks and every reward_boost when CPE is enabled.  What a disabled CPE
\* never reads is held at one value: the metric list, the widths, and the
\* auxiliary networks are supplied all together (with a boost) or not at all
\* (without one, or with the unknown name).  A valid CPE configuration
\* carries the boost, so that shaped and raw rewards differ.
ParameterChoices ==
    { p \in [ calc_cpe_in_training : BOOLEAN,
              maxq_learning        : BOOLEAN,
              reward_burnin        : BurninChoices,
              reward_boost         : RewardBoostChoices,
              metrics_to_score     : MetricsChoices,
              supplied             : SUBSET AuxNetworks,
              narrow               : NarrowChoices ] :
        /\ p.narrow # None =>
              /\ p.calc_cpe_in_training
              /\ p.supplied = AuxNetworks
              /\ Len(p.metrics_to_score) = 2
        /\ p.calc_cpe_in_training /\ p.supplied = AuxNetworks => p.reward_boost # {}
        /\ ~p.calc_cpe_in_training =>
              /\ Len(p.metrics_to_score) = 1
              /\ p.supplied \in {{}, AuxNetworks}
              /\ p.supplied = {} <=> p.reward_boost # {<<"b", 2>>} }

(***************************************************************************)
(* Networks.  A network's parameters are a table: for each state the row   *)
(* of values its forward pass returns.  An auxiliary network has A*M       *)
(* outputs (M blocks of A); parameters.narrow names one built with a       *)
(* single block only, the width mismatch of a misconfigured caller.        *)
(***************************************************************************)
Ints2Rats(s) == [i \in 1..Len(s) |-> R(s[i])]

InitialTable(name) ==
    CASE name = "q_network"            -> <<<<1, 3>>, <<2, 0>>>>
      [] name = "q_network_target"     -> <<<<2, 1>>, <<1, 4>>>>
      [] name = "reward_network"       -> <<<<0, 1, 2, 3>>, <<1, 0, 3, 2>>>>
      [] name = "q_network_cpe"        -> <<<<1, 2, 0, 1>>, <<3, 1, 2, 2>>>>
      [] name = "q_network_cpe_target" -> <<<<2, 0, 1, 3>>, <<0, 2, 4, 1>>>>

\* the network object handed to the constructor; <<>> when it is not supplied
NewNetwork(p, name) ==
    LET A == Len(Actions)
        width == IF name \in {"q_network", "q_network_target"} \/ p.narrow = name
                 THEN A
                 ELSE A * Len(p.metrics_to_score)
    IN  IF name \in AuxNetworks /\ name \notin p.supplied
        THEN <<>>
        ELSE [s \in States |-> Ints2Rats(SubSeq(InitialTable(name)[s], 1, width))]

NetworkNames == {"q_network", "q_network_target"} \cup AuxNetworks

\* network(input).q_values
Forward(net, state) == net[state]

(***************************************************************************)
(* __init__                                                                *)
(***************************************************************************)
\* lines 31-33 and DQNTrainerBase.__init__ (lines 35-42): the scalars the base
\* class copies from the parameters, and the step counter at zero
BaseInit(p) ==
    [ _actions             |-> Actions,
      minibatch            |-> 0,
      gamma                |-> Gamma,
      tau                  |-> Tau,
      reward_burnin        |-> p.reward_burnin,
      maxq_learning        |-> p.maxq_learning,
      calc_cpe_in_training |-> p.calc_cpe_in_training,
      metrics_to_score     |-> p.metrics_to_score,
      attrs                |-> {},
      reward_idx_offsets   |-> <<>>,
      reward_boosts        |-> <<>>,
      all_action_scores    |-> <<>>,
      loss                 |-> Zero,
      optimizer_steps      |-> [n \in {"q_network", "reward_network", "q_network_cpe"} |-> 0] ]

num_actions(slf) == Len(slf._actions)

\* self._actions.index(k): the 0-based position of k, -1 standing for the
\* ValueError of a name that is not in the list
IndexOf(seq, k) ==
    IF \E i \in 1..Len(seq) : seq[i] = k
    THEN (CHOOSE i \in 1..Len(seq) : seq[i] = k /\ \A j \in 1..(i - 1) : seq[j] # k) - 1
    ELSE -1

\* torch.arange(0, num_output_nodes, num_actions), lines 67-70
Arange(stop, step) == [m \in 1..((stop + step - 1) \div step) |-> (m - 1) * step]

\* a CPE block that forgets the target network in its second assertion
CpeAssertionsHoldNoTarget(p) ==
    /\ "reward_network" \in p.supplied
    /\ "q_network_cpe" \in p.supplied

\* lines 53-61: the assertions of the CPE block
CpeAssertionsHold(p) ==
    /\ "reward_network" \in p.supplied
    /\ "q_network_cpe" \in p.supplied /\ "q_network_cpe_target" \in p.supplied

\* lines 72-76: the boost vector; every key of reward_boost is looked up
RewardBoostKeysKnown(p, slf) ==
    \A kv \in p.reward_boost : IndexOf(slf._actions, kv[1]) # -1

BuildRewardBoosts(p, slf) ==
    [i \in 1..Len(slf._actions) |->
        IF \E kv \in p.reward_boost : IndexOf(slf._actions, kv[1]) = i - 1
        THEN R((CHOOSE kv \in p.reward_boost : IndexOf(slf._actions, kv[1]) = i - 1)[2])
        ELSE Zero]

\* the error __init__ raises, or None
InitError(p) ==
    IF p.calc_cpe_in_training /\ ~CpeAssertionsHold(p) THEN "AssertionError"
    \* lines 56-58, 64-66: None has no parameters() to build an optimizer over
    ELSE IF p.calc_cpe_in_training
            /\ ~({"reward_network", "q_network_cpe"} \subseteq p.supplied)
         THEN "AttributeError"
    ELSE IF ~RewardBoostKeysKnown(p, BaseInit(p)) THEN "ValueError"
    ELSE None

\* the constructed trainer
InitSelf(p) ==
    LET base == BaseInit(p)
        cpe  == IF p.calc_cpe_in_training
                THEN [base EXCEPT
                        !.attrs = AuxNetworks,
                        !.reward_idx_offsets =
                            Arange(Len(base.metrics_to_score) * num_actions(base),
                                   num_actions(base))]
                ELSE base
    IN  [cpe EXCEPT !.reward_boosts = BuildRewardBoosts(p, cpe)]

(***************************************************************************)
(* Training batches.  A batch is a sequence of rows; one-hot vectors and   *)
(* masks are sequences of 0/1 over the action set.                         *)
(***************************************************************************)
OneHots == {<<1, 0>>, <<0, 1>>}
Masks == {<<1, 0>>, <<0, 1>>, <<1, 1>>}

\* The rows explored.  Every mask has a valid action (the selector's
\* precondition) and extras.metrics has one column per auxiliary metric.
\* In max-action mode the next-action mask varies, in on-policy mode the
\* next action does; the field the mode does not read is held at one value.
Rows(slf) ==
    { [ state                      |-> s,
        action                     |-> a,
        reward                     |-> s,
        next_state                 |-> 3 - s,
        next_action                |-> na,
        not_terminal               |-> nt,
        possible_actions_mask      |-> <<1, 1>>,
        possible_next_actions_mask |-> pna,
        metrics                    |-> IF slf.calc_cpe_in_training
                                          /\ Len(slf.metrics_to_score) = 2
                                       THEN <<R(2)>> ELSE <<>> ] :
        s \in States, a \in OneHots, nt \in {0, 1},
        na \in IF slf.maxq_learning THEN {<<1, 0>>} ELSE OneHots,
        pna \in IF slf.maxq_learning THEN Masks ELSE {<<1, 1>>} }

\* the other values of a row's fields
Flip(v) == IF v[1] + v[2] = 1 THEN <<v[2], v[1]>> ELSE v

Partner(r) ==
    [r EXCEPT !.state = 3 - @, !.reward = 3 - @, !.next_state = 3 - @,
              !.action = Flip(@), !.not_terminal = 1 - @,
              !.next_action = Flip(@), !.possible_next_actions_mask = Flip(@)]

\* The batches explored have two samples: any row, and the row that differs
\* from it in every field.
TrainingBatches(slf) == { <<r, Partner(r)>> : r \in Rows(slf) }

(***************************************************************************)
(* Tensor helpers                                                          *)
(***************************************************************************)
\* torch.sum(u * v, 1): the inner product of a value row with a 0/1 row
Dot(u, v) == RSum([i \in 1..Len(u) |-> RMul(u[i], R(v[i]))], Len(u))

\* argmax of a one-hot row, 0-based (line 159)
ArgmaxOneHot(v) == (CHOOSE i \in 1..Len(v) : v[i] = 1 /\ \A j \in 1..(i - 1) : v[j] # 1) - 1

\* does gather(1, index) stay inside a row of this width
InRange(row, index) == index >= 0 /\ index < Len(row)

\* row.gather at a 0-based column
At(row, index) == row[index + 1]

\* DQNTrainerBase.boost_rewards: reward + boost[action taken]
boost_rewards(slf, reward, action) == RAdd(R(reward), Dot(slf.reward_boosts, action))

\* DQNTrainerBase.get_max_q_values_with_target: the entries the mask rules out
\* are unreachable for the argmax over the online estimates; the value is read
\* from the target estimates at the index chosen (ties: the lowest index)
get_max_q_values_with_target(q_values, q_values_target, mask) ==
    LET valid == {i \in 1..Len(q_values) : mask[i] = 1}
        best  == CHOOSE i \in valid :
                    /\ \A j \in valid : ~RLess(q_values[i], q_values[j])
                    /\ \A j \in valid : j < i => RLess(q_values[j], q_values[i])
    IN  [value |-> q_values_target[best], idx |-> best - 1]

\* DQNTrainerBase.get_max_q_values: selection and value from the same estimates
get_max_q_values(q_values, mask) ==
    get_max_q_values_with_target(q_values, q_values, mask)

\* caffe_utils.masked_softmax, kept symbolic: the distribution is a function
\* of the scores, the mask and the temperature
masked_softmax(scores, mask) ==
    [fn |-> "masked_softmax", scores |-> scores, mask |-> mask, temperature |-> "rl_temperature"]

\* RLTrainer._soft_update(network, target_network, tau), parameter by parameter:
\* target_param = target_param * (1 - tau) + online_param * tau
SoftMix(network, target_network, tau) ==
    [s \in DOMAIN target_network |->
        [i \in 1..Len(target_network[s]) |->
            RAdd(RMul(target_network[s][i], RSub(One, tau)),
                 RMul(network[s][i], tau))]]

\* _soft_update names the two networks of self.nets it reads and writes
_soft_update(ns, network, target_network, tau) ==
    [ns EXCEPT ![target_network] = SoftMix(ns[network], ns[target_network], tau)]

\* sum of the entries of a matrix m[1..N][1..K]
MSum(m) == RSum([n \in 1..Len(m) |-> RSum(m[n], Len(m[n]))], Len(m))

\* the number of entries of a matrix
MCount(m) == RSum([n \in 1..Len(m) |-> R(Len(m[n]))], Len(m))[1]

\* F.mse_loss, and the q_network_loss the base class selects: the mean of the
\* squared differences over all entries
MseLoss(pred, target) ==
    RMul(MSum([n \in 1..Len(pred) |-> [k \in 1..Len(pred[n]) |->
                 RMul(RSub(pred[n][k], target[n][k]), RSub(pred[n][k], target[n][k]))]]),
         <<1, MCount(pred)>>)

\* loss.backward() as far as the predictions: d loss / d pred[n][k]
MseGrad(pred, target) ==
    [n \in 1..Len(pred) |-> [k \in 1..Len(pred[n]) |->
        RMul(<<2, MCount(pred)>>, RSub(pred[n][k], target[n][k]))]]

\* loss.backward() into a tabular network: prediction [n][k] is weight[n][k]
\* times the network's output for row n's state at 0-based column cols[n][k]
TableGrad(net, states, cols, weight, dpred) ==
    [s \in DOMAIN net |-> [i \in 1..Len(net[s]) |->
        MSum([n \in 1..Len(states) |-> [k \in 1..Len(cols[n]) |->
            IF states[n] = s /\ cols[n][k] = i - 1
            THEN RMul(R(weight[n][k]), dpred[n][k])
            ELSE Zero]])]]

\* optimizer.step() of plain gradient descent over the parameters the
\* optimizer was built with: param -= lr * param.grad
OptimizerStep(net, grad) ==
    [s \in DOMAIN net |->
        [i \in 1..Len(net[s]) |-> RSub(net[s][i], RMul(LearningRate, grad[s][i]))]]

(***************************************************************************)
(* train(training_batch), lines 92-186.  A frame holds the trainer, the    *)
(* networks and the locals of one call; each stage below is a run of       *)
(* statements of train or calculate_cpes, and a stage after an exception   *)
(* changes nothing.                                                        *)
(***************************************************************************)
NewFrame(slf, ns, training_batch) ==
    [ self |-> slf, nets |-> ns, batch |-> training_batch, raised |-> None,
      trace |-> <<[step |-> "start", nets |-> ns]>>,
      checks |-> <<>>, grad |-> <<>>,
      rewards |-> <<>>, discount_tensor |-> <<>>, not_done_mask |-> <<>>,
      all_next_q_values |-> <<>>, all_next_q_values_target |-> <<>>,
      next_q_values |-> <<>>, max_q_action_idxs |-> <<>>,
      filtered_next_q_vals |-> <<>>, target_q_values |-> <<>>,
      all_q_values |-> <<>>, q_values |-> <<>>, logged_action_idxs |-> <<>>,
      cpe_called |-> FALSE, cpe_is_none |-> TRUE,
      metrics_reward_concat_real_vals |-> <<>>,
      reward_estimates |-> <<>>, reward_cols |-> <<>>,
      reward_estimates_for_logged_actions |-> <<>>,
      metric_q_values |-> <<>>, metric_target_q_values |-> <<>>,
      target_cols |-> <<>>, max_q_values_metrics |-> <<>>,
      target_metric_q_values |-> <<>>,
      reward_loss |-> Zero, model_rewards |-> <<>>, model_propensities |-> <<>>,
      reported |-> FALSE, report |-> <<>> ]

Rows1(f) == 1..Len(f.batch)

BatchStates(f) == [n \in Rows1(f) |-> f.batch[n].state]

Raise(f, error) == [f EXCEPT !.raised = error]

\* the burn-in test `self.minibatch < self.reward_burnin`
InBurnin(slf) == slf.minibatch < slf.reward_burnin

\* a burn-in test made at a site of the code, with the counter value it read
NoteCheck(f, site) ==
    [f EXCEPT !.checks = Append(@, [site |-> site, minibatch |-> f.self.minibatch,
                                    in_burnin |-> InBurnin(f.self)])]

\* a network mutation just made, noted with the networks as they now are
NoteStep(f, step) == [f EXCEPT !.trace = Append(@, [step |-> step, nets |-> f.nets])]

\* lines 96-111: shaped rewards, the step counter, discount and terminal mask
\* (use_seq_num_diff_as_time_diff only logs a warning)
TrainPrepare(f) ==
    [f EXCEPT
        !.rewards = [n \in Rows1(f) |->
                        boost_rewards(f.self, f.batch[n].reward, f.batch[n].action)],
        !.self.minibatch = @ + 1,
        !.discount_tensor = [n \in Rows1(f) |-> f.self.gamma],
        !.not_done_mask = [n \in Rows1(f) |-> R(f.batch[n].not_terminal)]]

\* the two networks taken the other way round
get_detached_q_values_swapped(ns, state) ==
    <<Forward(ns.q_network_target, state), Forward(ns.q_network, state)>>

\* lines 82-90: the online and the target network's values, without gradient
get_detached_q_values(ns, state) ==
    <<Forward(ns.q_network, state), Forward(ns.q_network_target, state)>>

\* lines 113-115
TrainNextStateValues(f) ==
    [f EXCEPT
        !.all_next_q_values =
            [n \in Rows1(f) |-> get_detached_q_values(f.nets, f.batch[n].next_state)[1]],
        !.all_next_q_values_target =
            [n \in Rows1(f) |-> get_detached_q_values(f.nets, f.batch[n].next_state)[2]]]

\* lines 117-128: the selection signal handed to the selector
NextActionSignal(slf, row) ==
    IF slf.maxq_learning THEN row.possible_next_actions_mask ELSE row.next_action

\* lines 117-128: the next-state value and the selected next action
SelectNext(f, n) ==
    get_max_q_values_with_target(f.all_next_q_values[n], f.all_next_q_values_target[n],
                                 NextActionSignal(f.self, f.batch[n]))

TrainSelect(f) ==
    [f EXCEPT
        !.next_q_values = [n \in Rows1(f) |-> SelectNext(f, n).value],
        !.max_q_action_idxs = [n \in Rows1(f) |-> SelectNext(f, n).idx]]

\* line 130
TrainFilter(f) ==
    [f EXCEPT !.filtered_next_q_vals =
        [n \in Rows1(f) |-> RMul(f.next_q_values[n], f.not_done_mask[n])]]

\* a target that bootstraps in burn-in too
TargetQValueAlwaysBootstrapped(slf, reward, discount, filtered_next_q_val) ==
    RAdd(reward, RMul(discount, filtered_next_q_val))

\* lines 132-135: the target of one sample
TargetQValue(slf, reward, discount, filtered_next_q_val) ==
    IF InBurnin(slf) THEN reward
    ELSE RAdd(reward, RMul(discount, filtered_next_q_val))

TrainTarget(f) ==
    NoteCheck([f EXCEPT !.target_q_values =
                  [n \in Rows1(f) |->
                      TargetQValue(f.self, f.rewards[n], f.discount_tensor[n],
                                   f.filtered_next_q_vals[n])]],
              "target_q_values")

\* lines 138-139: the forward pass on the current state
TrainForward(f) ==
    [f EXCEPT !.all_q_values =
        [n \in Rows1(f) |-> Forward(f.nets.q_network, f.batch[n].state)]]

\* lines 140-141: the detached copy, and the value of the action taken
TrainScores(f) ==
    [f EXCEPT
        !.self.all_action_scores = f.all_q_values,
        !.q_values = [n \in Rows1(f) |-> Dot(f.all_q_values[n], f.batch[n].action)]]

Column(v) == [n \in 1..Len(v) |-> <<v[n]>>]

\* the gradient of sum(all_q_values * action, 1) spread over the A columns
SpreadOverActions(dq, A) == [n \in 1..Len(dq) |-> [i \in 1..A |-> dq[n][1]]]

\* lines 143-147: loss, zero_grad, backward
TrainBackward(f) ==
    [f EXCEPT
        !.self.loss = MseLoss(Column(f.q_values), Column(f.target_q_values)),
        !.grad = TableGrad(f.nets.q_network, BatchStates(f),
                           [n \in Rows1(f) |-> [i \in 1..num_actions(f.self) |-> i - 1]],
                           [n \in Rows1(f) |-> f.batch[n].action],
                           SpreadOverActions(MseGrad(Column(f.q_values),
                                                     Column(f.target_q_values)),
                                             num_actions(f.self)))]

\* lines 148-150: no gradient handler (line 40), then the step of
\* q_network_optimizer, which was built over q_network.parameters() (lines 47-51)
TrainStep(f) ==
    NoteStep([f EXCEPT !.self.optimizer_steps.q_network = @ + 1,
                       !.nets.q_network = OptimizerStep(@, f.grad)],
             "q_network_optimizer.step")

\* a soft update that never forces the hard copy
SoftUpdateTauConfigured(slf) == slf.tau

\* lines 152-157: the rate of the soft update
SoftUpdateTau(slf) == IF InBurnin(slf) THEN One ELSE slf.tau

TrainSoftUpdate(f) ==
    NoteStep(NoteCheck([f EXCEPT !.nets = _soft_update(@, "q_network", "q_network_target",
                                                        SoftUpdateTau(f.self))],
                       "soft_update"),
             "_soft_update(q_network)")

(***************************************************************************)
(* calculate_cpes, lines 188-264                                           *)
(***************************************************************************)
\* lines 200-206: the raw reward column followed by the metric columns
MetricsRewardConcat(row) == <<R(row.reward)>> \o row.metrics

\* reward_idx_offsets + action index, one column per metric (lines 212, 223, 227)
OffsetCols(slf, idx) ==
    [m \in 1..Len(slf.reward_idx_offsets) |-> slf.reward_idx_offsets[m] + idx]

AllInRange(out, cols) ==
    \A n \in 1..Len(cols) : \A m \in 1..Len(cols[n]) : InRange(out[n], cols[n][m])

GatherCols(out, cols) ==
    [n \in 1..Len(cols) |-> [m \in 1..Len(cols[n]) |-> At(out[n], cols[n][m])]]

UnitWeights(cols) == [n \in 1..Len(cols) |-> [m \in 1..Len(cols[n]) |-> 1]]

\* lines 200-210: the regression targets and the reward network's estimates;
\* self.reward_network is set only by the CPE block of __init__ (line 55), and
\* calling a network that is None raises
CpeRewardForward(f) ==
    IF f.raised # None THEN f
    ELSE IF "reward_network" \notin f.self.attrs THEN Raise(f, "AttributeError")
    ELSE IF f.nets.reward_network = <<>> THEN Raise(f, "TypeError")
    ELSE [f EXCEPT
            !.metrics_reward_concat_real_vals =
                [n \in Rows1(f) |-> MetricsRewardConcat(f.batch[n])],
            !.reward_estimates =
                [n \in Rows1(f) |-> Forward(f.nets.reward_network, f.batch[n].state)],
            !.reward_cols =
                [n \in Rows1(f) |-> OffsetCols(f.self, f.logged_action_idxs[n])]]

\* lines 211-213: gather raises on a column outside the output
CpeRewardGather(f) ==
    IF f.raised # None THEN f
    ELSE IF ~AllInRange(f.reward_estimates, f.reward_cols) THEN Raise(f, "IndexError")
    ELSE [f EXCEPT !.reward_estimates_for_logged_actions =
                        GatherCols(f.reward_estimates, f.reward_cols)]

\* lines 214-218: the reward loss and its gradient
CpeRewardBackward(f) ==
    IF f.raised # None THEN f
    ELSE [f EXCEPT
            !.reward_loss = MseLoss(f.reward_estimates_for_logged_actions,
                                    f.metrics_reward_concat_real_vals),
            !.grad = TableGrad(f.nets.reward_network, BatchStates(f), f.reward_cols,
                               UnitWeights(f.reward_cols),
                               MseGrad(f.reward_estimates_for_logged_actions,
                                       f.metrics_reward_concat_real_vals))]

\* line 219: the step of reward_network_optimizer, built over
\* reward_network.parameters() (lines 56-58)
CpeRewardStep(f) ==
    IF f.raised # None THEN f
    ELSE NoteStep([f EXCEPT !.self.optimizer_steps.reward_network = @ + 1,
                            !.nets.reward_network = OptimizerStep(@, f.grad)],
                  "reward_network_optimizer.step")

\* lines 222-224: the CPE value network's predictions for the logged actions
CpeValueForward(f) ==
    IF f.raised # None THEN f
    ELSE IF f.nets.q_network_cpe = <<>> THEN Raise(f, "TypeError")
    ELSE IF ~AllInRange([n \in Rows1(f) |-> Forward(f.nets.q_network_cpe, f.batch[n].state)],
                        f.reward_cols)
         THEN Raise(f, "IndexError")
    ELSE [f EXCEPT !.metric_q_values =
            GatherCols([n \in Rows1(f) |-> Forward(f.nets.q_network_cpe, f.batch[n].state)],
                       f.reward_cols)]

\* target columns taken at the logged action instead of the selected one
CpeTargetColsLogged(f) ==
    [n \in Rows1(f) |-> OffsetCols(f.self, f.logged_action_idxs[n])]

\* line 227: the columns read from the CPE target network
CpeTargetCols(f) ==
    [n \in Rows1(f) |-> OffsetCols(f.self, f.max_q_action_idxs[n])]

\* line 225: the CPE target network's estimates on the current state
CpeTargetForward(f) ==
    IF f.raised # None THEN f
    ELSE IF f.nets.q_network_cpe_target = <<>> THEN Raise(f, "TypeError")
    ELSE [f EXCEPT
            !.metric_target_q_values =
                [n \in Rows1(f) |-> Forward(f.nets.q_network_cpe_target, f.batch[n].state)],
            !.target_cols = CpeTargetCols(f)]

\* lines 226-228
CpeTargetGather(f) ==
    IF f.raised # None THEN f
    ELSE IF ~AllInRange(f.metric_target_q_values, f.target_cols) THEN Raise(f, "IndexError")
    ELSE [f EXCEPT !.max_q_values_metrics =
                        GatherCols(f.metric_target_q_values, f.target_cols)]

\* lines 230-235: the per-metric target of one sample
CpeTargetValue(slf, real, discount, filtered_max_q_value) ==
    IF InBurnin(slf) THEN real
    ELSE RAdd(real, RMul(discount, filtered_max_q_value))

\* lines 229-235
CpeTarget(f) ==
    IF f.raised # None THEN f
    ELSE NoteCheck([f EXCEPT !.target_metric_q_values =
            [n \in Rows1(f) |->
                [m \in 1..Len(f.metrics_reward_concat_real_vals[n]) |->
                    CpeTargetValue(f.self, f.metrics_reward_concat_real_vals[n][m],
                                   f.discount_tensor[n],
                                   RMul(f.max_q_values_metrics[n][m], f.not_done_mask[n]))]]],
                   "target_metric_q_values")

\* lines 236-240: the CPE value loss and its gradient
CpeValueBackward(f) ==
    IF f.raised # None THEN f
    ELSE [f EXCEPT !.grad =
            TableGrad(f.nets.q_network_cpe, BatchStates(f), f.reward_cols,
                      UnitWeights(f.reward_cols),
                      MseGrad(f.metric_q_values, f.target_metric_q_values))]

\* line 241: the step of q_network_cpe_optimizer, built over
\* q_network_cpe.parameters() (lines 64-66)
CpeValueStep(f) ==
    IF f.raised # None THEN f
    ELSE NoteStep([f EXCEPT !.self.optimizer_steps.q_network_cpe = @ + 1,
                            !.nets.q_network_cpe = OptimizerStep(@, f.grad)],
                  "q_network_cpe_optimizer.step")

\* lines 243-248: the rate of the CPE pair's soft update
CpeSoftUpdateTau(slf) == IF InBurnin(slf) THEN One ELSE slf.tau

\* a soft update with the online and the target network exchanged
CpeSoftUpdateNetsSwapped(ns, slf) ==
    _soft_update(ns, "q_network_cpe_target", "q_network_cpe", CpeSoftUpdateTau(slf))

\* lines 243-248: the soft update of the CPE pair
CpeSoftUpdateNets(ns, slf) ==
    _soft_update(ns, "q_network_cpe", "q_network_cpe_target", CpeSoftUpdateTau(slf))

CpeSoftUpdate(f) ==
    IF f.raised # None THEN f
    ELSE NoteStep(NoteCheck([f EXCEPT !.nets = CpeSoftUpdateNets(@, f.self)],
                            "cpe_soft_update"),
                  "_soft_update(q_network_cpe)")

\* lines 250-263: propensities from the detached scores, and the reward
\* model's first metric block
CpeOutputs(f) ==
    IF f.raised # None THEN f
    ELSE [f EXCEPT
            !.model_propensities =
                [n \in Rows1(f) |->
                    masked_softmax(f.self.all_action_scores[n],
                                   IF f.self.maxq_learning
                                   THEN f.batch[n].possible_actions_mask
                                   ELSE f.batch[n].action)],
            !.model_rewards =
                [n \in Rows1(f) |->
                    [i \in 1..num_actions(f.self) |->
                        At(f.reward_estimates[n], f.self.reward_idx_offsets[1] + i - 1)]]]

\* lines 208-219
CpeRewardModel(f) ==
    CpeRewardStep(CpeRewardBackward(CpeRewardGather(CpeRewardForward(f))))

\* lines 221-248
CpeValueModel(f) ==
    CpeSoftUpdate(CpeValueStep(CpeValueBackward(CpeTarget(
        CpeTargetGather(CpeTargetForward(CpeValueForward(f)))))))

\* a calculate_cpes that advances the step counter itself
calculate_cpes_counting(f) ==
    IF ~f.self.calc_cpe_in_training
    THEN [f EXCEPT !.cpe_called = TRUE, !.cpe_is_none = TRUE, !.self.minibatch = @ + 1]
    ELSE CpeOutputs(CpeValueModel(CpeRewardModel(
             [f EXCEPT !.cpe_called = TRUE, !.cpe_is_none = FALSE,
                       !.self.minibatch = @ + 1])))

\* a calculate_cpes without the early return of lines 197-198
calculate_cpes_unguarded(f) ==
    CpeOutputs(CpeValueModel(CpeRewardModel(
        [f EXCEPT !.cpe_called = TRUE, !.cpe_is_none = FALSE])))

\* lines 188-264
calculate_cpes(f) ==
    IF ~f.self.calc_cpe_in_training
    THEN [f EXCEPT !.cpe_called = TRUE, !.cpe_is_none = TRUE]
    ELSE CpeOutputs(CpeValueModel(CpeRewardModel(
             [f EXCEPT !.cpe_called = TRUE, !.cpe_is_none = FALSE])))

\* lines 159-167
TrainCpe(f) ==
    calculate_cpes([f EXCEPT !.logged_action_idxs =
                        [n \in Rows1(f) |-> ArgmaxOneHot(f.batch[n].action)]])

\* lines 169-186: what the loss reporter is handed (logged_propensities is
\* passed through from the batch, logged_values and
\* model_values_on_logged_actions are None)
TrainReport(f) ==
    IF f.raised # None THEN f
    ELSE [f EXCEPT
            !.reported = TRUE,
            !.report =
                [ td_loss |-> f.self.loss,
                  reward_loss_is_none |-> f.cpe_is_none,
                  reward_loss |-> f.reward_loss,
                  logged_actions |-> f.logged_action_idxs,
                  logged_rewards |-> f.rewards,
                  model_propensities |-> f.model_propensities,
                  model_rewards |-> f.model_rewards,
                  model_values |-> f.self.all_action_scores,
                  model_action_idxs |->
                      [n \in Rows1(f) |->
                          get_max_q_values(f.self.all_action_scores[n],
                                           IF f.self.maxq_learning
                                           THEN f.batch[n].possible_actions_mask
                                           ELSE f.batch[n].action).idx] ]]

\* lines 96-135: the target of the step
TrainTargets(f) ==
    TrainTarget(TrainFilter(TrainSelect(TrainNextStateValues(TrainPrepare(f)))))

\* lines 96-157: the primary trainer's part of the step
TrainPrimary(f) ==
    TrainSoftUpdate(TrainStep(TrainBackward(TrainScores(TrainForward(TrainTargets(f))))))

\* a train that takes the detached scores again after the update
train_snapshot_after_step(slf, ns, training_batch) ==
    TrainReport(TrainCpe(TrainScores(TrainForward(
        TrainPrimary(NewFrame(slf, ns, training_batch))))))

\* lines 92-186
train(slf, ns, training_batch) ==
    TrainReport(TrainCpe(TrainPrimary(NewFrame(slf, ns, training_batch))))

(***************************************************************************)
(* The trainer's life: construction, then calls of train.                  *)
(***************************************************************************)
Init ==
    /\ parameters \in ParameterChoices
    /\ phase = "new"
    /\ self = BaseInit(parameters)
    /\ nets = [n \in NetworkNames |-> NewNetwork(parameters, n)]
    /\ last = [called |-> FALSE]

Construct ==
    /\ phase = "new"
    /\ phase' = IF InitError(parameters) = None THEN "ready" ELSE InitError(parameters)
    /\ self' = IF InitError(parameters) = None THEN InitSelf(parameters) ELSE self
    /\ UNCHANGED <<parameters, nets, last>>

Train(training_batch) ==
    /\ phase = "ready"
    /\ self.minibatch < MaxCalls
    /\ \E f \in {train(self, nets, training_batch)} :
           /\ self' = f.self
           /\ nets' = f.nets
           /\ last' = [called |-> TRUE, pre_self |-> self, pre_nets |-> nets, f |-> f]
    /\ UNCHANGED <<parameters, phase>>

Next ==
    \/ Construct
    \/ \E training_batch \in TrainingBatches(self) : Train(training_batch)

Spec == Init /\ [][Next]_vars

(***************************************************************************)
(* Properties.  last holds the frame of the latest call of train, with the *)
(* trainer and the networks as they were before it.                        *)
(***************************************************************************)
Samples == 1..Len(last.f.batch)

\* the step counter as the burn-in tests of the latest call read it
StepRead == last.pre_self.minibatch + 1

Completed == last.called /\ last.f.reported

CpeCompleted == Completed /\ ~last.f.cpe_is_none

\* old * (1 - tau) + new * tau, entry by entry
Blend(old, new, tau) ==
    [s \in DOMAIN old |-> [i \in 1..Len(old[s]) |->
        RAdd(RMul(old[s][i], RSub(One, tau)), RMul(new[s][i], tau))]]

\* the primary online network as the optimizer step of the latest call left it
SteppedQNetwork == last.f.trace[2].nets.q_network

\* C1 as stated: the detached current action values, the model_values reported
\* and the scores the propensities are computed from are the forward pass of
\* the primary online network as it is after this call's optimizer step.
C1_SnapshotReflectsUpdatedNetwork ==
    Completed =>
        \A n \in Samples :
            /\ last.f.report.model_values[n]
                  = Forward(last.f.nets.q_network, last.f.batch[n].state)
            /\ ~last.f.cpe_is_none =>
                  last.f.model_propensities[n].scores
                     = Forward(last.f.nets.q_network, last.f.batch[n].state)

\* C1 as amended: the primary step and soft update come first in the call, but
\* the detached scores were taken by the forward pass before them; model_values
\* and the propensities' scores are the forward pass of the primary online
\* network as it was before this call's optimizer step.
C1_SnapshotReflectsNetworkBeforeStep ==
    Completed =>
        /\ last.f.trace[2].step = "q_network_optimizer.step"
        /\ last.f.trace[3].step = "_soft_update(q_network)"
        /\ \A n \in Samples :
            /\ self.all_action_scores[n]
                  = Forward(last.pre_nets.q_network, last.f.batch[n].state)
            /\ last.f.report.model_values[n]
                  = Forward(last.pre_nets.q_network, last.f.batch[n].state)
            /\ ~last.f.cpe_is_none =>
                  last.f.model_propensities[n].scores
                     = Forward(last.pre_nets.q_network, last.f.batch[n].state)

\* a completed CPE call whose optimizer step changed the values of a sample's state
C1_Witness ==
    /\ CpeCompleted
    /\ \E n \in Samples :
          Forward(last.pre_nets.q_network, last.f.batch[n].state)
             # Forward(nets.q_network, last.f.batch[n].state)

\* C2: below the burn-in threshold the target of every sample is its shaped
\* reward; otherwise it is shaped reward + gamma * next value * not_terminal,
\* which for a terminal sample is the shaped reward again.
C2_TargetConstruction ==
    last.called =>
        \A n \in Samples :
            IF StepRead < parameters.reward_burnin
            THEN last.f.target_q_values[n] = last.f.rewards[n]
            ELSE /\ last.f.target_q_values[n]
                       = RAdd(last.f.rewards[n],
                              RMul(Gamma, RMul(last.f.next_q_values[n],
                                               R(last.f.batch[n].not_terminal))))
                 /\ last.f.batch[n].not_terminal = 0 =>
                       last.f.target_q_values[n] = last.f.rewards[n]

\* a call in burn-in with a boosted, non-terminal sample whose next value is not zero
C2_Witness ==
    /\ last.called
    /\ StepRead < parameters.reward_burnin
    /\ \E n \in Samples :
          /\ last.f.batch[n].not_terminal = 1
          /\ last.f.next_q_values[n] # Zero
          /\ last.f.rewards[n] # R(last.f.batch[n].reward)

\* C3: after a call whose burn-in tests read a counter below the threshold the
\* primary target network equals the online network as the optimizer step left
\* it; after any other call it is old_target * (1 - tau) + online * tau; and
\* the CPE pair follows the same rule on the same counter value when CPE ran.
C3_SoftUpdateRule ==
    last.called =>
        /\ last.f.trace[2].step = "q_network_optimizer.step"
        /\ nets.q_network = SteppedQNetwork
        /\ IF StepRead < parameters.reward_burnin
           THEN nets.q_network_target = SteppedQNetwork
           ELSE nets.q_network_target
                   = Blend(last.pre_nets.q_network_target, SteppedQNetwork, Tau)
        /\ CpeCompleted =>
              IF StepRead < parameters.reward_burnin
              THEN nets.q_network_cpe_target = nets.q_network_cpe
              ELSE nets.q_network_cpe_target
                      = Blend(last.pre_nets.q_network_cpe_target, nets.q_network_cpe, Tau)

\* a completed CPE call in burn-in that moved both target networks
C3_Witness ==
    /\ CpeCompleted
    /\ StepRead < parameters.reward_burnin
    /\ nets.q_network_target # last.pre_nets.q_network_target
    /\ nets.q_network_cpe_target # last.pre_nets.q_network_cpe_target
    /\ nets.q_network # last.pre_nets.q_network

\* the network a step of the call may change
ChangedBy(step) ==
    CASE step = "q_network_optimizer.step"      -> "q_network"
      [] step = "_soft_update(q_network)"       -> "q_network_target"
      [] step = "reward_network_optimizer.step" -> "reward_network"
      [] step = "q_network_cpe_optimizer.step"  -> "q_network_cpe"
      [] step = "_soft_update(q_network_cpe)"   -> "q_network_cpe_target"

OnlineOf(target) ==
    IF target = "q_network_target" THEN "q_network" ELSE "q_network_cpe"

\* C4: every optimizer step of a call changes the parameters of its own
\* network only, the target networks change in soft updates only, and a soft
\* update leaves a convex combination of the target's previous parameters and
\* its online network's current ones.
C4_UpdatesAreIsolated ==
    last.called =>
        /\ last.f.trace[1].nets = last.pre_nets
        /\ last.f.trace[Len(last.f.trace)].nets = nets
        /\ \A i \in 2..Len(last.f.trace) :
              LET before == last.f.trace[i - 1].nets
                  after  == last.f.trace[i].nets
                  name   == ChangedBy(last.f.trace[i].step)
              IN  /\ \A other \in NetworkNames \ {name} : after[other] = before[other]
                  /\ name \in {"q_network_target", "q_network_cpe_target"} =>
                        \E tau \in {One, Tau} :
                            after[name] = Blend(before[name], after[OnlineOf(name)], tau)

\* a completed CPE call that changed all five networks
C4_Witness ==
    /\ CpeCompleted
    /\ Len(last.f.trace) = 6
    /\ \A name \in NetworkNames : nets[name] # last.pre_nets[name]

\* C5 as stated: a call of train that fails leaves every network as it was
\* before the call.
C5_FailedCallChangesNoNetwork ==
    last.called /\ last.f.raised # None => nets = last.pre_nets

\* C6: a call advances the step counter by one, once; the burn-in tests of the
\* call (two, and four when the CPE value model is trained) all read that
\* value and agree; after a call out of burn-in no call is in burn-in.
C6_OneCounterValuePerCall ==
    last.called =>
        /\ self.minibatch = last.pre_self.minibatch + 1
        /\ Len(last.f.checks) = IF CpeCompleted THEN 4 ELSE 2
        /\ \A c \in 1..Len(last.f.checks) :
              /\ last.f.checks[c].site
                    = <<"target_q_values", "soft_update",
                        "target_metric_q_values", "cpe_soft_update">>[c]
              /\ last.f.checks[c].minibatch = self.minibatch
              /\ last.f.checks[c].in_burnin = (self.minibatch < parameters.reward_burnin)
        /\ (last.pre_self.minibatch >= 1
              /\ ~(last.pre_self.minibatch < parameters.reward_burnin)) =>
              \A c \in 1..Len(last.f.checks) : ~last.f.checks[c].in_burnin

\* the second call of a CPE trainer, the first one out of burn-in
C6_Witness ==
    /\ CpeCompleted
    /\ Len(last.f.checks) = 4
    /\ self.minibatch = 2
    /\ last.pre_self.minibatch < parameters.reward_burnin
    /\ ~last.f.checks[4].in_burnin

ActionNames == {Actions[i] : i \in 1..Len(Actions)}

\* C8: construction fails exactly when CPE is enabled without all three
\* auxiliary networks or a reward_boost entry names an unknown action, with
\* the constructor's AssertionError or ValueError; a constructed trainer's
\* train never raises for a missing network or an unknown action.
C8_ConfigurationErrorsAtConstruction ==
    phase # "new" =>
        /\ (phase # "ready") <=>
              \/ parameters.calc_cpe_in_training /\ parameters.supplied # AuxNetworks
              \/ \E kv \in parameters.reward_boost : kv[1] \notin ActionNames
        /\ phase \in {"ready", "AssertionError", "ValueError"}
        /\ last.called =>
              last.f.raised \notin {"AssertionError", "ValueError",
                                    "TypeError", "AttributeError"}

\* construction refused: CPE enabled and only the CPE target network missing
C8_Witness ==
    /\ phase = "AssertionError"
    /\ parameters.calc_cpe_in_training
    /\ parameters.supplied = {"reward_network", "q_network_cpe"}
    /\ \A kv \in parameters.reward_boost : kv[1] \in ActionNames

\* C9: with CPE disabled calculate_cpes returns (None, None, None), the reward
\* network and the CPE pair keep the parameters they were built with and
\* their optimizers never step, while every call steps the primary network,
\* soft-updates its target and advances the counter.
C9_CpeDisabledTouchesNoCpeNetwork ==
    phase = "ready" /\ ~parameters.calc_cpe_in_training =>
        /\ \A name \in AuxNetworks : nets[name] = NewNetwork(parameters, name)
        /\ self.optimizer_steps.reward_network = 0
        /\ self.optimizer_steps.q_network_cpe = 0
        /\ self.optimizer_steps.q_network = self.minibatch
        /\ last.called =>
              /\ last.f.cpe_called /\ last.f.cpe_is_none
              /\ last.f.raised = None /\ last.f.reported
              /\ last.f.report.reward_loss_is_none
              /\ last.f.report.model_rewards = <<>>
              /\ last.f.report.model_propensities = <<>>
              /\ self.minibatch = last.pre_self.minibatch + 1
              /\ Len(last.f.trace) = 3
              /\ last.f.trace[2].step = "q_network_optimizer.step"
              /\ last.f.trace[3].step = "_soft_update(q_network)"

\* two calls of a trainer without CPE that was handed the three networks
C9_Witness ==
    /\ phase = "ready" /\ ~parameters.calc_cpe_in_training
    /\ parameters.supplied = AuxNetworks
    /\ last.called /\ self.minibatch = 2
    /\ nets.q_network # NewNetwork(parameters, "q_network")
    /\ nets.q_network_target # NewNetwork(parameters, "q_network_target")

\* the column of metric m's block at a 0-based action index
BlockCol(m, idx) == (m - 1) * Len(Actions) + idx

\* C10: the offset table is [0, A, ..., (M-1)A]; for every sample and metric m
\* the reward network and the CPE online network are read at column
\* (m-1)A + logged action, the CPE target network at column (m-1)A + the one
\* next action the selector chose for the sample, and every column lies in
\* metric m's block.
C10_MetricColumns ==
    phase = "ready" /\ parameters.calc_cpe_in_training =>
        LET A == Len(Actions)
            M == Len(parameters.metrics_to_score)
        IN  /\ self.reward_idx_offsets = [m \in 1..M |-> (m - 1) * A]
            /\ last.called =>
                  \A n \in Samples : \A m \in 1..M :
                      LET j   == ArgmaxOneHot(last.f.batch[n].action)
                          i   == last.f.max_q_action_idxs[n]
                          s   == last.f.batch[n].state
                      IN  /\ last.f.batch[n].action[j + 1] = 1
                          /\ Len(last.f.reward_cols[n]) = M
                          /\ last.f.reward_cols[n][m] = BlockCol(m, j)
                          /\ BlockCol(m, j) \in ((m - 1) * A)..(m * A - 1)
                          /\ BlockCol(m, i) \in ((m - 1) * A)..(m * A - 1)
                          /\ m * A <= A * M
                          /\ last.f.target_cols # <<>> =>
                                /\ Len(last.f.target_cols[n]) = M
                                /\ last.f.target_cols[n][m] = BlockCol(m, i)
                          /\ Completed =>
                                /\ last.f.reward_estimates_for_logged_actions[n][m]
                                      = last.pre_nets.reward_network[s][BlockCol(m, j) + 1]
                                /\ last.f.metric_q_values[n][m]
                                      = last.pre_nets.q_network_cpe[s][BlockCol(m, j) + 1]
                                /\ last.f.max_q_values_metrics[n][m]
                                      = last.pre_nets.q_network_cpe_target[s][BlockCol(m, i) + 1]

\* a completed CPE call with two metrics where a sample's selected next action
\* is not its logged action
C10_Witness ==
    /\ CpeCompleted
    /\ Len(parameters.metrics_to_score) = 2
    /\ \E n \in Samples :
          last.f.max_q_action_idxs[n] # ArgmaxOneHot(last.f.batch[n].action)

====
